---- MODULE Spec2Model ----
(***************************************************************************)
(* Model of src/src/app.py: a Telegram bot that splits uploaded files into *)
(* sentences, stores one record per sentence in a single shared ChromaDB   *)
(* collection (document_storage) and answers text queries by a nearest-    *)
(* neighbour search over that collection.                                  *)
(*                                                                         *)
(* The bot (TeleBot, threaded) runs its message handlers on a pool of      *)
(* worker threads; each worker is a process of the model.  A call of the   *)
(* collection (add, query) and a call of the embedding model (encode) may  *)
(* raise; the handlers catch every exception.                              *)
(***************************************************************************)
EXTENDS Integers, Sequences, FiniteSets, TLC

\* ------------------------------------------------------------------ bounds
MaxMsgs == 3           \* updates dispatched to the workers in one run
MaxLen == 2            \* chunks of a generated file text

\* --------------------------------------------------------------- constants
NumThreads == 2        \* TeleBot(token): threaded, a pool of 2 worker threads
TopN == 5              \* search_similar_content(..., top_n=5)

Threads == 1..NumThreads

\* A decoded text is a sequence of chunks: a chunk is a run of whitespace
\* or one sentence (with its terminator).
WS == " "
Sentences == {"s1", "s2"}
Chunks == Sentences \cup {WS}
Queries == {"q1", "q2"}

RECURSIVE SeqsUpTo(_, _)
SeqsUpTo(S, n) ==
    IF n = 0 THEN {<<>>}
    ELSE LET shorter == SeqsUpTo(S, n - 1)
         IN  shorter \cup {Append(s, c) : s \in {x \in shorter : Len(x) = n - 1}, c \in S}

\* The five-sentence document of the partial-ingestion scenario.
LongDoc == <<"s1", "s2", "s1", "s2", "s1">>

Texts == SeqsUpTo(Chunks, MaxLen) \cup {LongDoc}

\* ------------------------------------------------------- external functions
\* embedding_model.encode: text -> vector (deterministic for a given model;
\* the vectors are not normalised).
Encode(s) ==
    CASE s = "s1" -> <<1, 1>>
      [] s = "s2" -> <<4, 0>>
      [] s = "q1" -> <<1, 0>>
      [] s = "q2" -> <<1, 3>>
      [] OTHER    -> <<0, 1>>

\* nltk sent_tokenize: the sentences of a text, in order; whitespace between
\* sentences is dropped, so a whitespace-only text has no sentences.
SentTokenize(txt) == SelectSeq(txt, LAMBDA c : c # WS)

\* Python truthiness of a str: the empty string is false, any other string
\* (whitespace included) is true.
Truthy(txt) == Len(txt) > 0

\* str(index)
Str(i) == ToString(i)

\* ------------------------------------------------------------ the collection
\* A record of the collection.
Record(id, emb, doc) == [id |-> id, embedding |-> emb, document |-> doc]

Ids(st) == {st[i].id : i \in 1..Len(st)}

\* An add that overwrites the record of an existing id (an upsert).
CollectionUpsert(st, id, emb, doc) ==
    IF id \in Ids(st)
    THEN [i \in 1..Len(st) |-> IF st[i].id = id THEN Record(id, emb, doc) ELSE st[i]]
    ELSE Append(st, Record(id, emb, doc))

\* Collection.add(ids=[id], embeddings=[emb], documents=[doc]) when it does
\* not raise: an id already in the collection is left as it is (the add of an
\* existing id is ignored), a new id is appended.  A store that rejects the
\* duplicate raises instead: that outcome is the action AddRaises.
CollectionAdd(st, id, emb, doc) ==
    IF id \in Ids(st) THEN st ELSE Append(st, Record(id, emb, doc))

\* The collection is created without metadata, so its distance is the
\* default of the store: squared L2.
L2(a, b) == (a[1] - b[1]) * (a[1] - b[1]) + (a[2] - b[2]) * (a[2] - b[2])
Distance(a, b) == L2(a, b)

\* Positions of st ordered by increasing distance to q (ties: insertion order).
Closer(st, q, i, j) ==
    LET di == Distance(st[i].embedding, q)
        dj == Distance(st[j].embedding, q)
    IN  di < dj \/ (di = dj /\ i < j)

Rank(st, q, i) == 1 + Cardinality({j \in 1..Len(st) : Closer(st, q, j, i)})

Min(a, b) == IF a < b THEN a ELSE b

\* Collection.query(query_embeddings=[q], n_results=n) when it does not raise:
\* the positions of the n nearest records, nearest first; fewer when the
\* collection holds fewer than n records.
NearestPositions(st, q, n) ==
    [r \in 1..Min(n, Len(st)) |-> CHOOSE i \in 1..Len(st) : Rank(st, q, i) = r]

\* results['documents']: one list of documents per query embedding.
QueryDocuments(st, q, n) ==
    LET pos == NearestPositions(st, q, n)
    IN  << [r \in 1..Len(pos) |-> st[pos[r]].document] >>

\* ------------------------------------------------------------------ messages
\* What a handler sends back (the source's strings, by kind).
Msg(kind) == [kind |-> kind, docs |-> <<>>]
MsgExtractFailed == Msg("extract_failed")   \* "Не удалось обработать содержимое файла."
MsgAddError      == Msg("add_error")        \* "Ошибка при добавлении данных из файла ..."
MsgSaved         == Msg("saved")            \* "Данные успешно сохранены!"
MsgBadFormat     == Msg("bad_format")       \* "Пожалуйста, загрузите файл формата .txt или .docx."
MsgNoMatches     == Msg("no_matches")       \* "Совпадений не найдено. Попробуйте уточнить запрос."
MsgSearchError   == Msg("search_error")     \* "Во время поиска произошла ошибка."
MsgResults(docs) == [kind |-> "results", docs |-> docs]   \* "Результаты поиска:\n1. ...\n"
MsgNone          == Msg("none")

\* search_similar_content, after collection.query returned `results`.
FormatResults(documents) ==
    IF Len(documents) = 0 THEN MsgNoMatches ELSE MsgResults(documents[1])

\* An except branch that rolls the document back: it deletes the records of
\* the indices before the failing one.
OnAddErrorRollback(st, idx) ==
    SelectSeq(st, LAMBDA r : r.id \notin {Str(k) : k \in 0..(idx - 1)})

\* The except branch of populate_database's loop: log and return; the
\* collection is not touched.
OnAddError(st, idx) == st

\* ---------------------------------------------------------------------- state
VARIABLES
    store,      \* document_storage: the records, in insertion order
    pc,         \* per worker: where its handler is
    sentences,  \* per worker: populate_database's sentence list
    index,      \* per worker: populate_database's loop index
    query,      \* per worker: search_similar_content's query
    result,     \* per worker: the message the handler sends
    attempted,  \* per worker (history): sentences of this call handed to encode
    stored,     \* per worker (history): records this call appended to the store
    msgs        \* updates dispatched so far

vars == <<store, pc, sentences, index, query, result, attempted, stored, msgs>>

Init ==
    /\ store = <<>>
    /\ pc = [t \in Threads |-> "idle"]
    /\ sentences = [t \in Threads |-> <<>>]
    /\ index = [t \in Threads |-> 0]
    /\ query = [t \in Threads |-> "q1"]
    /\ result = [t \in Threads |-> MsgNone]
    /\ attempted = [t \in Threads |-> 0]
    /\ stored = [t \in Threads |-> 0]
    /\ msgs = 0

\* ------------------------------------------------------------------- actions
\* handle_file_upload with a file of another extension: asks for .txt/.docx.
UploadBadFormat(t) ==
    /\ pc[t] = "idle" /\ msgs < MaxMsgs
    /\ msgs' = msgs + 1
    /\ result' = [result EXCEPT ![t] = MsgBadFormat]
    /\ pc' = [pc EXCEPT ![t] = "reply"]
    /\ sentences' = [sentences EXCEPT ![t] = <<>>]
    /\ index' = [index EXCEPT ![t] = 0]
    /\ attempted' = [attempted EXCEPT ![t] = 0]
    /\ stored' = [stored EXCEPT ![t] = 0]
    /\ UNCHANGED <<store, query>>

\* handle_file_upload -> download_and_process_file -> populate_database, up to
\* the loop: extract_file_content (decoded = FALSE: it returned None), the
\* `if not text` test and sent_tokenize.
Upload(t) ==
    /\ pc[t] = "idle" /\ msgs < MaxMsgs
    /\ \E txt \in Texts, decoded \in BOOLEAN :
          /\ msgs' = msgs + 1
          /\ index' = [index EXCEPT ![t] = 0]
          /\ attempted' = [attempted EXCEPT ![t] = 0]
          /\ stored' = [stored EXCEPT ![t] = 0]
          /\ IF decoded /\ Truthy(txt)
             THEN /\ sentences' = [sentences EXCEPT ![t] = SentTokenize(txt)]
                  /\ pc' = [pc EXCEPT ![t] = "loop"]
                  /\ result' = [result EXCEPT ![t] = MsgNone]
             ELSE /\ sentences' = [sentences EXCEPT ![t] = <<>>]
                  /\ pc' = [pc EXCEPT ![t] = "reply"]
                  /\ result' = [result EXCEPT ![t] = MsgExtractFailed]
    /\ UNCHANGED <<store, query>>

\* One loop iteration up to the call of document_storage.add: encode the
\* sentence; an exception of encode ends the call with the error message.
EncodeSentence(t) ==
    /\ pc[t] = "loop" /\ index[t] < Len(sentences[t])
    /\ attempted' = [attempted EXCEPT ![t] = @ + 1]
    /\ \E raised \in BOOLEAN :
          IF raised
          THEN /\ store' = OnAddError(store, index[t])
               /\ result' = [result EXCEPT ![t] = MsgAddError]
               /\ pc' = [pc EXCEPT ![t] = "reply"]
          ELSE /\ pc' = [pc EXCEPT ![t] = "add"]
               /\ UNCHANGED <<store, result>>
    /\ UNCHANGED <<sentences, index, query, stored, msgs>>

\* document_storage.add returns: the record is added under id str(index) and
\* the loop goes on with the next index.
AddReturns(t) ==
    /\ pc[t] = "add"
    /\ LET s == sentences[t][index[t] + 1]
           after == CollectionAdd(store, Str(index[t]), Encode(s), s)
       IN  /\ store' = after
           /\ stored' = [stored EXCEPT ![t] = @ + (Len(after) - Len(store))]
    /\ index' = [index EXCEPT ![t] = @ + 1]
    /\ pc' = [pc EXCEPT ![t] = "loop"]
    /\ UNCHANGED <<sentences, query, result, attempted, msgs>>

\* document_storage.add raises: the except branch returns the error message.
AddRaises(t) ==
    /\ pc[t] = "add"
    /\ store' = OnAddError(store, index[t])
    /\ result' = [result EXCEPT ![t] = MsgAddError]
    /\ pc' = [pc EXCEPT ![t] = "reply"]
    /\ UNCHANGED <<sentences, index, query, attempted, stored, msgs>>

\* The loop is over: populate_database returns the success message.
Saved(t) ==
    /\ pc[t] = "loop" /\ index[t] = Len(sentences[t])
    /\ result' = [result EXCEPT ![t] = MsgSaved]
    /\ pc' = [pc EXCEPT ![t] = "reply"]
    /\ UNCHANGED <<store, sentences, index, query, attempted, stored, msgs>>

\* handle_text_query -> search_similar_content, up to the call of
\* collection.query: encode the query; an exception gives the error message.
Query(t) ==
    /\ pc[t] = "idle" /\ msgs < MaxMsgs
    /\ msgs' = msgs + 1
    /\ sentences' = [sentences EXCEPT ![t] = <<>>]
    /\ index' = [index EXCEPT ![t] = 0]
    /\ attempted' = [attempted EXCEPT ![t] = 0]
    /\ stored' = [stored EXCEPT ![t] = 0]
    /\ \E q \in Queries, raised \in BOOLEAN :
          /\ query' = [query EXCEPT ![t] = q]
          /\ IF raised
             THEN /\ result' = [result EXCEPT ![t] = MsgSearchError]
                  /\ pc' = [pc EXCEPT ![t] = "reply"]
             ELSE /\ result' = [result EXCEPT ![t] = MsgNone]
                  /\ pc' = [pc EXCEPT ![t] = "query"]
    /\ UNCHANGED store

\* collection.query returns: the answer is formatted from results['documents'].
QueryReturns(t) ==
    /\ pc[t] = "query"
    /\ result' = [result EXCEPT ![t] =
                     FormatResults(QueryDocuments(store, Encode(query[t]), TopN))]
    /\ pc' = [pc EXCEPT ![t] = "reply"]
    /\ UNCHANGED <<store, sentences, index, query, attempted, stored, msgs>>

\* collection.query raises.
QueryRaises(t) ==
    /\ pc[t] = "query"
    /\ result' = [result EXCEPT ![t] = MsgSearchError]
    /\ pc' = [pc EXCEPT ![t] = "reply"]
    /\ UNCHANGED <<store, sentences, index, query, attempted, stored, msgs>>

\* bot.send_message(chat, result): the handler ends, the worker is free.
Reply(t) ==
    /\ pc[t] = "reply"
    /\ pc' = [pc EXCEPT ![t] = "idle"]
    /\ result' = [result EXCEPT ![t] = MsgNone]
    /\ sentences' = [sentences EXCEPT ![t] = <<>>]
    /\ index' = [index EXCEPT ![t] = 0]
    /\ attempted' = [attempted EXCEPT ![t] = 0]
    /\ stored' = [stored EXCEPT ![t] = 0]
    /\ query' = [query EXCEPT ![t] = "q1"]
    /\ UNCHANGED <<store, msgs>>

Next ==
    \E t \in Threads :
        \/ UploadBadFormat(t)
        \/ Upload(t)
        \/ EncodeSentence(t)
        \/ AddReturns(t)
        \/ AddRaises(t)
        \/ Saved(t)
        \/ Query(t)
        \/ QueryReturns(t)
        \/ QueryRaises(t)
        \/ Reply(t)

Spec == Init /\ [][Next]_vars

\* ==================================================================== claims
Returned(t) == pc[t] = "reply"
Ingested(t) == Returned(t) /\ result[t].kind \in {"saved", "add_error"}

\* a is a prefix of b: every record of a is in b, at its place, unchanged.
Kept(a, b) == Len(a) <= Len(b) /\ \A i \in 1..Len(a) : b[i] = a[i]

\* cos(a, q) >= cos(b, q), for vectors with non-negative components.
Dot(a, b) == a[1] * b[1] + a[2] * b[2]
CosGE(a, b, q) ==
    Dot(a, q) * Dot(a, q) * Dot(b, b) >= Dot(b, q) * Dot(b, q) * Dot(a, a)

\* C1: every sentence whose add returned without raising has a record of its
\* own: the ids handed to add never collide, so a call's records are as many
\* as the adds it completed (A then B, 2 sentences each: 4 records).
C1_EverySentenceOwnRecord == \A t \in Threads : stored[t] = index[t]

\* C2: a failure at sentence index i does not abort the rest of the document:
\* when populate_database returns, every sentence was handed to encode.
C2_RemainingSentencesAttempted ==
    \A t \in Threads : Ingested(t) => attempted[t] = Len(sentences[t])

\* C3: populate_database reports a failure only if none of the document's
\* sentences was stored.
C3_FailureOnlyIfNothingStored ==
    \A t \in Threads :
        (Returned(t) /\ result[t].kind \in {"add_error", "extract_failed"})
            => stored[t] = 0

\* C4: a text that is empty, whitespace only or without sentences never gets
\* the success message, and leaves the store as it was.
C4_BlankNeverSaved ==
    \A t \in Threads :
        (Returned(t) /\ Len(sentences[t]) = 0)
            => (result[t].kind # "saved" /\ stored[t] = 0)

\* C5: a query for which the store returns zero records is answered with the
\* no-matches message, never with a results listing.
C5_ZeroMatchesIsNoMatches ==
    \A t \in Threads :
        (Returned(t) /\ result[t].kind = "results") => Len(result[t].docs) > 0

\* C6: with n records and top_n = k <= n, a query lists exactly k documents,
\* by decreasing cosine similarity to the query embedding, each at least as
\* similar as every record not listed.
C6_Step(t) ==
    LET q == Encode(query[t])
        pos == NearestPositions(store, q, TopN)
        listed == {pos[r] : r \in 1..Len(pos)}
    IN  /\ Len(result'[t].docs) = TopN
        /\ \A r1, r2 \in 1..Len(pos) :
              r1 < r2 => CosGE(store[pos[r1]].embedding, store[pos[r2]].embedding, q)
        /\ \A i \in listed, u \in (1..Len(store)) \ listed :
              CosGE(store[i].embedding, store[u].embedding, q)
C6_CosineTopK ==
    [][\A t \in Threads :
          (pc[t] = "query" /\ pc'[t] = "reply" /\ result'[t].kind = "results"
             /\ TopN <= Len(store)) => C6_Step(t)]_vars

\* C7: no two add calls are in progress at the same time, and no add call is
\* in progress while a query call is.
C7_StoreCallsSerialised ==
    /\ Cardinality({t \in Threads : pc[t] = "add"}) <= 1
    /\ ~ \E t, u \in Threads : pc[t] = "add" /\ pc[u] = "query"

\* C8: the step on which an ingestion fails discards nothing: every record in
\* the store before it is in the store, unchanged, when the error message is
\* returned.
C8_FailureKeepsStore ==
    [][\A t \in Threads :
          (pc[t] \in {"loop", "add"} /\ result'[t] = MsgAddError)
             => Kept(store, store')]_vars
\* An ingestion failed after storing sentences of its own, in a store that
\* also holds records of earlier documents.
C8_Witness ==
    \E t \in Threads :
        /\ Returned(t) /\ result[t] = MsgAddError
        /\ stored[t] >= 1 /\ Len(store) > stored[t]

\* C9: once a record is visible in the store, no step changes or removes it.
C9_RecordsNeverChange == [][Kept(store, store')]_vars
\* A later ingestion handed a different sentence under an id in the store, its
\* add returned, and the store still holds the first text under that id.
C9_Witness ==
    \E t \in Threads : \E k \in 0..(index[t] - 1) : \E i \in 1..Len(store) :
        /\ store[i].id = Str(k)
        /\ store[i].document # sentences[t][k + 1]

\* C10: when populate_database returns the success message every sentence of
\* the document is the text of a record in the store; and the sentences a call
\* has submitted are a prefix of the document.
C10_SavedMeansStored ==
    \A t \in Threads :
        /\ index[t] <= Len(sentences[t])
        /\ (Returned(t) /\ result[t].kind = "saved") =>
              \A i \in 1..Len(sentences[t]) :
                  \E j \in 1..Len(store) : store[j].document = sentences[t][i]

====
